---------------------------- MODULE Spec2Model ----------------------------
(***************************************************************************)
(* TamaOS scaffold: the device stub (century_life.py), the configuration   *)
(* loader (config.py) and the bootstrap routine (main.py).                 *)
(*                                                                         *)
(* Two programs are modelled.  SpecDevice drives a CenturyLifeDevice by    *)
(* tick calls.  Spec runs the process `python main.py`: the import of      *)
(* config (load_dotenv, seven getenv/coercions), ensure_dirs, banner, the  *)
(* final print.  main never touches the device, so the two share nothing.  *)
(***************************************************************************)
EXTENDS Integers, Sequences, FiniteSets, TLC

VARIABLES
    dev,      \* the CenturyLifeDevice object: [age, stage]
    ret,      \* what the last tick call returned (NoCall before any call)
    call,     \* the last tick call, [args |-> its argument list] (NoCall before any)
    prev,     \* the device as it was when the last tick call started
    ticks,    \* number of tick calls made so far
    same,     \* the dt common to every call so far: NoCall, a double, or Mixed
    sys,      \* the interpreter the process runs under and how it was started:
              \* [minor, dont_write_bytecode, run_as_module, stdout]
    pc,       \* position of the process in main.py
    exc,      \* the uncaught exception that ended the run (NoExc if none)
    penv,     \* the environment the process is started with
    environ,  \* os.environ inside the process: name -> string (absent: unset)
    dotenv,   \* the key/value pairs of the .env file load_dotenv finds
    cfg,      \* the module globals of config.py once it has been imported
    fs,       \* the filesystem: absolute path -> "dir" | "rodir" | "file"
    fs0,      \* the filesystem as it was when the current run started
    fs1,      \* the filesystem as it was when the current run called ensure_dirs
    cwd,      \* the process's working directory
    out,      \* the lines the current run has written to standard output
    run,      \* how many times the process has been started
    hist      \* the finished runs: [fs0, exc] of each, in order

devVars  == <<dev, ret, call, prev, ticks, same>>
procVars == <<sys, pc, exc, penv, environ, dotenv, cfg, fs, fs0, fs1, cwd, out, run, hist>>
vars     == <<dev, ret, call, prev, ticks, same,
              sys, pc, exc, penv, environ, dotenv, cfg, fs, fs0, fs1, cwd, out, run, hist>>

(***************************************************************************)
(* Bounds of the model.                                                    *)
(***************************************************************************)
MaxTicks == 6      \* tick calls made on the device
MaxStrLen == 3     \* length of the numeric environment strings that are enumerated
MaxEntries == 2    \* entries (besides the root) in the filesystem a first run finds
MaxRuns == 2       \* times the process is started

(***************************************************************************)
(* IEEE-754 binary64, restricted to the finite values that are whole       *)
(* multiples of 2^-56 and smaller than 16 in magnitude.  Such a value is   *)
(* [neg, hi, lo] and stands for (-1)^neg * (hi * 2^30 + lo) * 2^-56.  A    *)
(* multiple of 2^-56 is a double iff its magnitude, counted in units of    *)
(* 2^-56, has at most 53 significant bits; additions round to the nearest  *)
(* such value, ties to the even mantissa, as the hardware does.  Zero has  *)
(* a sign: -0.0 and 0.0 are two values, equal under == (FEq) and printed   *)
(* differently.                                                            *)
(***************************************************************************)
Limb == 2^30

MagAdd(a, b) ==
    LET s == a.lo + b.lo
    IN  [hi |-> a.hi + b.hi + (s \div Limb), lo |-> s % Limb]

MagLess(a, b) == a.hi < b.hi \/ (a.hi = b.hi /\ a.lo < b.lo)

\* a - b for a >= b
MagSub(a, b) ==
    IF a.lo >= b.lo
    THEN [hi |-> a.hi - b.hi, lo |-> a.lo - b.lo]
    ELSE [hi |-> a.hi - b.hi - 1, lo |-> a.lo + Limb - b.lo]

\* number of significant bits of a natural number below 2^31
BitLen(h) == IF h = 0 THEN 0 ELSE 1 + (CHOOSE k \in 0..30 : 2^k <= h /\ h \div 2 < 2^k)

\* number of significant bits of a magnitude
MagBits(m) == IF m.hi = 0 THEN BitLen(m.lo) ELSE 30 + BitLen(m.hi)

\* the number of low bits a magnitude has beyond 53 significant ones
ExcessBits(m) == IF MagBits(m) > 53 THEN MagBits(m) - 53 ELSE 0

\* round-to-nearest, ties-to-even, to 53 significant bits
RoundMag(m) ==
    LET k == ExcessBits(m)
        q == 2^k
        r == m.lo % q
        base == m.lo - r
        up == 2 * r > q \/ (2 * r = q /\ (base \div q) % 2 = 1)
        lo2 == IF up THEN base + q ELSE base
    IN  IF k = 0 THEN m
        ELSE IF lo2 = Limb THEN [hi |-> m.hi + 1, lo |-> 0]
        ELSE [hi |-> m.hi, lo |-> lo2]

Mag(x) == [hi |-> x.hi, lo |-> x.lo]
Float(neg, m) == [neg |-> neg, hi |-> m.hi, lo |-> m.lo]
IsZero(x) == x.hi = 0 /\ x.lo = 0

\* x + y on doubles: operands of one sign keep it (-0.0 + -0.0 is -0.0), and
\* an exact zero from operands of opposite signs is +0.0
FAdd(x, y) ==
    IF x.neg = y.neg
    THEN Float(x.neg, RoundMag(MagAdd(Mag(x), Mag(y))))
    ELSE IF MagLess(Mag(x), Mag(y))
    THEN Float(y.neg, RoundMag(MagSub(Mag(y), Mag(x))))
    ELSE IF MagLess(Mag(y), Mag(x))
    THEN Float(x.neg, RoundMag(MagSub(Mag(x), Mag(y))))
    ELSE Float(FALSE, [hi |-> 0, lo |-> 0])

\* x == y on doubles: the two zeros are equal (the program never compares;
\* the properties do)
FEq(x, y) == (IsZero(x) /\ IsZero(y)) \/ x = y

\* x <= y on doubles
FLe(x, y) ==
    IF IsZero(x) /\ IsZero(y) THEN TRUE
    ELSE IF x.neg /\ ~y.neg THEN TRUE
    ELSE IF ~x.neg /\ y.neg THEN FALSE
    ELSE IF x.neg THEN ~MagLess(Mag(x), Mag(y))
    ELSE ~MagLess(Mag(y), Mag(x))

\* the exact (unrounded) product n * m of a natural number and a magnitude
RECURSIVE MagTimes(_, _)
MagTimes(n, m) == IF n = 0 THEN [hi |-> 0, lo |-> 0] ELSE MagAdd(MagTimes(n - 1, m), m)

\* n * x in Python for an int n >= 0 and a double x: the exact product, rounded once
FMulInt(n, x) == Float(x.neg, RoundMag(MagTimes(n, Mag(x))))

\* the doubles the literals denote (hi, lo from the literal's bit pattern):
\* 0.0 and 1.0 are the source's, the others are arguments given to tick
F0    == [neg |-> FALSE, hi |-> 0,        lo |-> 0]          \* 0.0
F0_1  == [neg |-> FALSE, hi |-> 6710886,  lo |-> 429496730]  \* 0.1 = 0x1.999999999999ap-4
F0_25 == [neg |-> FALSE, hi |-> 16777216, lo |-> 0]          \* 0.25
F0_3  == [neg |-> FALSE, hi |-> 20132659, lo |-> 214748364]  \* 0.3 = 0x1.3333333333333p-2
F0_7  == [neg |-> FALSE, hi |-> 46976204, lo |-> 858993456]  \* 0.7 = 0x1.6666666666666p-1
F1    == [neg |-> FALSE, hi |-> 67108864, lo |-> 0]          \* 1.0
FNeg(x) == Float(~x.neg, Mag(x))

(***************************************************************************)
(* century_life.py                                                         *)
(***************************************************************************)
NoCall == [tag |-> "NoCall"]
Mixed  == [tag |-> "Mixed"]
NoArg  == <<>>          \* tick() : an empty argument list

\* CenturyLifeDevice(): __init__
CenturyLifeDevice == [age |-> F0, stage |-> "Neonate"]

\* faulty variant: the default of dt is 0.0
DefaultDt_Zero == F0

\* the default of tick's parameter dt
DefaultDt == F1

\* faulty variant: self.age = dt instead of self.age += dt
tick_Assign(self, args) ==
    LET dt   == IF args = NoArg THEN F1 ELSE args[1]
        self2 == [self EXCEPT !.age = dt]
    IN  [self |-> self2, ret |-> [age |-> self2.age, stage |-> self2.stage]]

\* faulty variant: self.age -= dt
tick_Subtracts(self, args) ==
    LET dt   == IF args = NoArg THEN F1 ELSE args[1]
        self2 == [self EXCEPT !.age = FAdd(self.age, FNeg(dt))]
    IN  [self |-> self2, ret |-> [age |-> self2.age, stage |-> self2.stage]]

\* faulty variant: a device that has reached age 1.0 leaves the first stage
tick_Grows(self, args) ==
    LET dt   == IF args = NoArg THEN F1 ELSE args[1]
        a    == FAdd(self.age, dt)
        self2 == [age |-> a, stage |-> IF FLe(F1, a) THEN "Juvenile" ELSE self.stage]
    IN  [self |-> self2, ret |-> [age |-> self2.age, stage |-> self2.stage]]

\* tick(self, dt=1.0): the object after the call and the returned dict
tick(self, args) ==
    LET dt   == IF args = NoArg THEN DefaultDt ELSE args[1]
        self2 == [self EXCEPT !.age = FAdd(self.age, dt)]
    IN  [self |-> self2, ret |-> [age |-> self2.age, stage |-> self2.stage]]

\* the dt values the calls are made with
DtValues == {F0, FNeg(F0), F0_1, F0_25, F0_3, F0_7, F1, FNeg(F0_1), FNeg(F1)}
TickArgs == {NoArg} \cup {<<d>> : d \in DtValues}

InitDevice ==
    /\ dev = CenturyLifeDevice
    /\ ret = NoCall
    /\ call = NoCall
    /\ prev = CenturyLifeDevice
    /\ ticks = 0
    /\ same = NoCall

Tick ==
    /\ ticks < MaxTicks
    /\ \E args \in TickArgs :
          LET r == tick(dev, args)
          IN  /\ dev' = r.self
              /\ ret' = r.ret
              /\ call' = [args |-> args]
              /\ prev' = dev
              /\ same' = IF args = NoArg THEN Mixed
                         ELSE IF same = NoCall \/ same = args[1] THEN args[1]
                         ELSE Mixed
    /\ ticks' = ticks + 1
    /\ UNCHANGED procVars

(***************************************************************************)
(* Strings are sequences of Unicode code points, so that float(), int()    *)
(* and Path() can be modelled by what they do to the characters.  The      *)
(* comments give the text a sequence stands for.                           *)
(***************************************************************************)

\* what float() and int() strip from the two ends of a string: the ASCII
\* whitespace \t \n \v \f \r and the space, and the whitespace characters
\* beyond ASCII, which both turn into a space before they parse (U+0085,
\* U+00A0, U+1680, U+2000..U+200A, U+2028, U+2029, U+202F, U+205F, U+3000).
\* The separators U+001C..U+001F are not stripped.
Whitespace ==
    (9..13) \cup {32, 133, 160, 5760} \cup (8192..8202) \cup {8232, 8233, 8239, 8287, 12288}

\* the decimal digits float() and int() accept are the characters of category
\* Nd in the interpreter's Unicode database, each turned into its ASCII digit
\* before the parse; they come in runs of ten.  The source pins no
\* interpreter: its f-strings need Python 3.6, whose database is Unicode 9,
\* and a later database knows more digits.

\* the major version of the Unicode database of Python 3.minor
UnicodeVersion(minor) ==
    CASE minor = 6 -> 9
      [] minor = 7 -> 11
      [] minor = 8 -> 12
      [] minor \in {9, 10} -> 13
      [] minor = 11 -> 14
      [] minor \in {12, 13} -> 15

\* the code points of the zeros every database from Unicode 9 on has ("0" is 48)
OldZeros ==
    {48, 1632, 1776, 1984, 2406, 2534, 2662, 2790, 2918, 3046, 3174, 3302, 3430,
     3558, 3664, 3792, 3872, 4160, 4240, 6112, 6160, 6470, 6608, 6784, 6800,
     6992, 7088, 7232, 7248, 42528, 43216, 43264, 43472, 43504, 43600, 44016,
     65296, 66720, 69734, 69872, 69942, 70096, 70384, 70736, 70864, 71248,
     71360, 71472, 71904, 72784, 92768, 93008, 120782, 120792, 120802, 120812,
     120822, 125264}

\* the zeros each later version of the database added, up to Unicode 15
YoungZeros ==
    [v \in 10..15 |->
        CASE v = 10 -> {73040}
          [] v = 11 -> {68912, 73120}
          [] v = 12 -> {123200, 123632}
          [] v = 13 -> {72016, 130032}
          [] v = 14 -> {92864}
          [] v = 15 -> {73552, 124144}]

\* the zeros of the digits the running interpreter knows
DigitZeros == OldZeros \cup UNION {YoungZeros[v] : v \in 10..UnicodeVersion(sys.minor)}
IsDigit(c) == \E z \in DigitZeros : c \in z..(z + 9)
DigitVal(c) == c - (CHOOSE z \in DigitZeros : c \in z..(z + 9))

\* the ASCII lower case of a character: "inf", "infinity" and "nan" are
\* matched without regard to the case of ASCII letters ("A".."Z" is 65..90)
Lower(c) == IF c \in 65..90 THEN c + 32 ELSE c

\* the string without its leading and trailing whitespace
RECURSIVE Strip(_)
Strip(s) ==
    IF s = <<>> THEN s
    ELSE IF Head(s) \in Whitespace THEN Strip(Tail(s))
    ELSE IF s[Len(s)] \in Whitespace THEN Strip(SubSeq(s, 1, Len(s) - 1))
    ELSE s

\* digit ("_"? digit)* from position i ("_" is 95): the position after it, its value and
\* its number of digits (n = 0: there is no digit at i)
RECURSIVE ScanDigits(_, _, _, _)
ScanDigits(s, i, val, n) ==
    IF i <= Len(s) /\ IsDigit(s[i])
    THEN ScanDigits(s, i + 1, val * 10 + DigitVal(s[i]), n + 1)
    ELSE IF n > 0 /\ i + 1 <= Len(s) /\ s[i] = 95 /\ IsDigit(s[i + 1])
    THEN ScanDigits(s, i + 1, val, n)
    ELSE [pos |-> i, val |-> val, n |-> n]

\* an optional sign at position i ("+" is 43, "-" is 45)
ScanSign(s, i) ==
    IF i <= Len(s) /\ s[i] \in {43, 45}
    THEN [pos |-> i + 1, neg |-> s[i] = 45]
    ELSE [pos |-> i, neg |-> FALSE]

(***************************************************************************)
(* Python values.  An int is [t, v].  A float read from a decimal string   *)
(* or converted from an int is denoted by that decimal, (-1)^neg * coef *  *)
(* 10^exp with coef not divisible by 10: decimals of up to 15 significant  *)
(* digits denote equal doubles iff they are equal as numbers.  Zero keeps  *)
(* its sign: float("-0") is -0.0, which prints as -0.0.  cls tells finite  *)
(* values from inf and nan, and from the subnormal doubles: below the      *)
(* smallest normal double a value is still the double nearest to its       *)
(* decimal, but decimals that differ can denote one double there, and the  *)
(* double is not printed as the decimal it was read from.                  *)
(***************************************************************************)
PyStr(s)   == [t |-> "str", s |-> s]
PyInt(v)   == [t |-> "int", v |-> v]
ValueError == [t |-> "ValueError"]
\* the subclass of ValueError that encoding a string raises
UnicodeEncodeError == [t |-> "UnicodeEncodeError"]

\* the conversion raised instead of returning a value
Raises(v) == v.t \in {"ValueError", "UnicodeEncodeError"}

\* the code points no string encodes to UTF-8 with: the surrogates,
\* U+D800 to U+DFFF.  os.environ holds a byte of the environment that is not
\* UTF-8 as the lone surrogate U+DC00 + byte.
Surrogates == 55296..57343

NumDigits(c) == CHOOSE d \in 1..10 : 10^(d - 1) <= c /\ (d = 10 \/ c < 10^d)

RECURSIVE DecNorm(_, _)
DecNorm(coef, exp) ==
    IF coef = 0 THEN [coef |-> 0, exp |-> 0]
    ELSE IF coef % 10 = 0 THEN DecNorm(coef \div 10, exp + 1)
    ELSE [coef |-> coef, exp |-> exp]

\* the double nearest to (-1)^neg * coef * 10^exp, for coef < 2^31
PyFloat(neg, coef, exp) ==
    LET d == DecNorm(coef, exp)
        n == NumDigits(d.coef)
        \* is the coefficient's digit string, padded with zeros, at most the
        \* nine digits of lead9 (ten digits: of lead10, where that is below 2^31)
        AtMost(lead9, lead10) ==
            IF n <= 9 THEN d.coef * 10^(9 - n) <= lead9
            ELSE lead10 = 0 \/ d.coef <= lead10
        \* beyond the largest double, 1.7976931348623157e308: overflows to inf
        big == d.coef # 0 /\
               (n + d.exp > 309 \/ (n + d.exp = 309 /\ ~AtMost(179769313, 1797693134)))
        \* at most half the smallest double, 2^-1075 = 2.4703282292...e-324:
        \* rounds to zero
        tiny == d.coef # 0 /\
                (n + d.exp < -323 \/ (n + d.exp = -323 /\ AtMost(247032822, 0)))
        \* below the smallest normal double, 2.2250738585072014e-308
        small == d.coef # 0 /\
                 (n + d.exp < -307 \/ (n + d.exp = -307 /\ AtMost(222507385, 0)))
    IN  IF big THEN [t |-> "float", cls |-> "inf", neg |-> neg, coef |-> 0, exp |-> 0]
        ELSE IF tiny THEN [t |-> "float", cls |-> "finite", neg |-> neg, coef |-> 0, exp |-> 0]
        ELSE [t |-> "float", cls |-> IF small THEN "subnormal" ELSE "finite", neg |-> neg,
              coef |-> d.coef, exp |-> d.exp]

PyInf(neg) == [t |-> "float", cls |-> "inf", neg |-> neg, coef |-> 0, exp |-> 0]
PyNan      == [t |-> "float", cls |-> "nan", neg |-> FALSE, coef |-> 0, exp |-> 0]

\* int(str): optional whitespace, optional sign, decimal digits
ParseInt(s) ==
    LET t  == Strip(s)
        sg == ScanSign(t, 1)
        ds == ScanDigits(t, sg.pos, 0, 0)
    IN  IF ds.n > 0 /\ ds.pos = Len(t) + 1
        THEN PyInt(IF sg.neg THEN 0 - ds.val ELSE ds.val)
        ELSE ValueError

\* float(str): optional whitespace, optional sign, then inf, infinity, nan or
\* digits [. digits] [e [sign] digits] with a digit before or after the point.
\* Python 3.6 encodes the whole string to UTF-8 before it reads it, and a
\* string with a surrogate anywhere raises UnicodeEncodeError there; from 3.7
\* on such a string is read like any other (int(str) does so in every version).
ParseFloat(s) ==
    LET t   == Strip(s)
        sg  == ScanSign(t, 1)
        w   == [i \in 1..(Len(t) + 1 - sg.pos) |-> Lower(t[sg.pos + i - 1])]
        ip  == ScanDigits(t, sg.pos, 0, 0)
        dot == ip.pos <= Len(t) /\ t[ip.pos] = 46           \* "."
        fp  == IF dot THEN ScanDigits(t, ip.pos + 1, 0, 0)
               ELSE [pos |-> ip.pos, val |-> 0, n |-> 0]
        hasE == fp.pos <= Len(t) /\ t[fp.pos] \in {101, 69}  \* "e", "E"
        es  == ScanSign(t, fp.pos + 1)
        ep  == IF hasE THEN ScanDigits(t, es.pos, 0, 0)
               ELSE [pos |-> fp.pos, val |-> 0, n |-> 0]
        e10 == IF hasE /\ es.neg THEN 0 - ep.val ELSE ep.val
    IN  IF sys.minor = 6 /\ \E i \in DOMAIN s : s[i] \in Surrogates
        THEN UnicodeEncodeError
        ELSE IF w \in {<<105, 110, 102>>,                          \* "inf"
                       <<105, 110, 102, 105, 110, 105, 116, 121>>} \* "infinity"
        THEN PyInf(sg.neg)
        ELSE IF w = <<110, 97, 110>> THEN PyNan                    \* "nan"
        ELSE IF /\ ip.n + fp.n > 0
                /\ hasE => ep.n > 0
                /\ ep.pos = Len(t) + 1
        THEN PyFloat(sg.neg, ip.val * 10^fp.n + fp.val, e10 - fp.n)
        ELSE ValueError

\* float(x) and int(x) as config.py calls them: x is an environment string or
\* the default the source passes to getenv (an int or a float)
float(x) ==
    IF x.t = "str" THEN ParseFloat(x.s)
    ELSE IF x.t = "int" THEN PyFloat(x.v < 0, IF x.v < 0 THEN 0 - x.v ELSE x.v, 0)
    ELSE x

int(x) == IF x.t = "str" THEN ParseInt(x.s) ELSE x

(***************************************************************************)
(* config.py                                                               *)
(***************************************************************************)
FloatVars == {"CENTURY_REAL_SEC", "BURST_CAP_PER_HOUR", "STASIS_FILL_RATE"}
IntVars   == {"STASIS_MAX_HOURS"}
StrVars   == {"VFS_PATH", "LOG_PATH", "SKIN_MODE"}
ConfigVars == FloatVars \cup IntVars \cup StrVars

\* the second argument of each os.getenv call
GetenvDefault ==
    [CENTURY_REAL_SEC   |-> PyInt(2592000),
     BURST_CAP_PER_HOUR |-> PyFloat(FALSE, 1, 0),
     STASIS_FILL_RATE   |-> PyFloat(FALSE, 15, -2),
     STASIS_MAX_HOURS   |-> PyInt(72),
     VFS_PATH           |-> PyStr(<<46, 47, 118, 102, 115>>),        \* "./vfs"
     LOG_PATH           |-> PyStr(<<46, 47, 108, 111, 103, 115>>),   \* "./logs"
     SKIN_MODE          |-> PyStr(<<66, 83, 83>>)]                   \* "BSS"

\* faulty variant: load_dotenv(override=True), the file's value wins
load_dotenv_Override(env, file) ==
    [k \in DOMAIN env \cup DOMAIN file |-> IF k \in DOMAIN file THEN file[k] ELSE env[k]]

\* load_dotenv(): every key of the .env file that os.environ does not have
\* yet is set in os.environ (override=False)
load_dotenv(env, file) ==
    [k \in DOMAIN env \cup DOMAIN file |-> IF k \in DOMAIN env THEN env[k] ELSE file[k]]

\* os.getenv(key, default)
getenv(env, key, default) == IF key \in DOMAIN env THEN PyStr(env[key]) ELSE default

\* the conversion config.py applies to the variable
Coerce(key, x) ==
    IF key \in FloatVars THEN float(x)
    ELSE IF key \in IntVars THEN int(x)
    ELSE x

\* the value config.py binds to the global named key
Setting(env, key) == Coerce(key, getenv(env, key, GetenvDefault[key]))

Unloaded == [loaded |-> FALSE]

\* faulty variant: a conversion that fails falls back to the default
config_Lenient(env, file) ==
    LET env2 == load_dotenv(env, file)
        vals == [k \in ConfigVars |->
                   IF Raises(Setting(env2, k))
                   THEN Coerce(k, GetenvDefault[k]) ELSE Setting(env2, k)]
    IN  [environ |-> env2, exc |-> "none", cfg |-> vals]

\* the numeric settings in the order config.py converts them (lines 6 to 9)
Conversions ==
    <<"CENTURY_REAL_SEC", "BURST_CAP_PER_HOUR", "STASIS_FILL_RATE", "STASIS_MAX_HOURS">>

\* the exception of the first conversion, from the i-th on, that raises
RECURSIVE FirstRaised(_, _)
FirstRaised(vals, i) ==
    IF Raises(vals[Conversions[i]]) THEN vals[Conversions[i]].t ELSE FirstRaised(vals, i + 1)

\* the import of config.py: os.environ after it, and either the module's
\* globals or the exception of the first conversion that fails
config(env, file) ==
    LET env2 == load_dotenv(env, file)
        vals == [k \in ConfigVars |-> Setting(env2, k)]
    IN  IF \E i \in DOMAIN Conversions : Raises(vals[Conversions[i]])
        THEN [environ |-> env2, exc |-> FirstRaised(vals, 1), cfg |-> Unloaded]
        ELSE [environ |-> env2, exc |-> "none", cfg |-> vals]

(***************************************************************************)
(* pathlib and the filesystem.  A filesystem maps the absolute paths that  *)
(* exist (sequences of names, <<>> the root) to "dir", "rodir" (a          *)
(* directory the process may not write to) or "file".  Path strings with   *)
(* a ".." component and symbolic links are not modelled.                   *)
(***************************************************************************)
\* the components of a path string: the pieces between slashes, without the
\* empty ones and the "." ones
RECURSIVE SplitPath(_, _, _)
SplitPath(s, cur, acc) ==
    LET push == IF cur = <<>> \/ cur = <<46>> THEN acc ELSE Append(acc, cur)   \* "."
    IN  IF s = <<>> THEN push
        ELSE IF Head(s) = 47 THEN SplitPath(Tail(s), <<>>, push)             \* "/"
        ELSE SplitPath(Tail(s), Append(cur, Head(s)), acc)

\* Path(s): absolute when s starts with "/"
Path(s) == [abs |-> s # <<>> /\ Head(s) = 47, parts |-> SplitPath(s, <<>>, <<>>)]

\* Path.parent: the root and "." are their own parents
Parent(p) ==
    IF p.parts = <<>> THEN p
    ELSE [abs |-> p.abs, parts |-> SubSeq(p.parts, 1, Len(p.parts) - 1)]

\* the absolute path the kernel resolves p to for a process in directory c
Resolve(c, p) == IF p.abs THEN p.parts ELSE c \o p.parts

Prefix(q, n) == SubSeq(q, 1, n)
Kind(f, q) == IF q \in DOMAIN f THEN f[q] ELSE "none"
IsDirKind(k) == k \in {"dir", "rodir"}

\* Path.is_dir()
is_dir(f, q) == IsDirKind(Kind(f, q))

\* faulty variant: whatever is in the way of the new directory is replaced
os_mkdir_Clobber(f, q) ==
    IF \A n \in 0..(Len(q) - 1) : IsDirKind(Kind(f, Prefix(q, n))) /\ Kind(f, q) = "file"
    THEN [fs |-> [x \in DOMAIN f |-> IF x = q THEN "dir" ELSE f[x]], err |-> "none"]
    ELSE IF \E n \in 0..(Len(q) - 1) : Kind(f, Prefix(q, n)) = "none"
    THEN [fs |-> f, err |-> "FileNotFoundError"]
    ELSE IF \E n \in 0..(Len(q) - 1) : Kind(f, Prefix(q, n)) = "file"
    THEN [fs |-> f, err |-> "NotADirectoryError"]
    ELSE IF q \in DOMAIN f THEN [fs |-> f, err |-> "FileExistsError"]
    ELSE IF f[Prefix(q, Len(q) - 1)] = "rodir" THEN [fs |-> f, err |-> "PermissionError"]
    ELSE [fs |-> [x \in DOMAIN f \cup {q} |-> IF x = q THEN "dir" ELSE f[x]],
          err |-> "none"]

\* os.mkdir(q): the filesystem after it and the error it raises, if any
os_mkdir(f, q) ==
    LET bad == {n \in 0..(Len(q) - 1) : ~IsDirKind(Kind(f, Prefix(q, n)))}
        first == CHOOSE n \in bad : \A m \in bad : n <= m
    IN  IF bad # {}
        THEN [fs |-> f,
              err |-> IF Kind(f, Prefix(q, first)) = "none"
                      THEN "FileNotFoundError" ELSE "NotADirectoryError"]
        ELSE IF q \in DOMAIN f THEN [fs |-> f, err |-> "FileExistsError"]
        ELSE IF f[Prefix(q, Len(q) - 1)] = "rodir" THEN [fs |-> f, err |-> "PermissionError"]
        ELSE [fs |-> [x \in DOMAIN f \cup {q} |-> IF x = q THEN "dir" ELSE f[x]],
              err |-> "none"]

\* Path.mkdir(parents=parents, exist_ok=exist_ok) for a process in directory c
RECURSIVE mkdir(_, _, _, _, _)
mkdir(f, c, p, parents, exist_ok) ==
    LET r == os_mkdir(f, Resolve(c, p))
    IN  IF r.err = "none" THEN r
        ELSE IF r.err = "FileNotFoundError"
        THEN IF ~parents \/ Parent(p) = p THEN r
             ELSE LET up == mkdir(f, c, Parent(p), TRUE, TRUE)
                  IN  IF up.err # "none" THEN up
                      ELSE mkdir(up.fs, c, p, FALSE, exist_ok)
        ELSE IF ~exist_ok \/ ~is_dir(f, Resolve(c, p)) THEN r
        ELSE [fs |-> f, err |-> "none"]

(***************************************************************************)
(* main.py                                                                 *)
(***************************************************************************)
\* faulty variant: mkdir(parents=True) without exist_ok
ensure_dirs_NoExistOk(f, c, conf) ==
    LET r1 == mkdir(f, c, Path(conf.VFS_PATH.s), TRUE, FALSE)
    IN  IF r1.err # "none" THEN r1
        ELSE mkdir(r1.fs, c, Path(conf.LOG_PATH.s), TRUE, FALSE)

\* faulty variant: the log directory is forgotten
ensure_dirs_OnlyVfs(f, c, conf) == mkdir(f, c, Path(conf.VFS_PATH.s), TRUE, TRUE)

\* ensure_dirs(): the second mkdir runs only if the first raised nothing
ensure_dirs(f, c, conf) ==
    LET r1 == mkdir(f, c, Path(conf.VFS_PATH.s), TRUE, TRUE)
    IN  IF r1.err # "none" THEN r1
        ELSE mkdir(r1.fs, c, Path(conf.LOG_PATH.s), TRUE, TRUE)

\* f with one more entry
AddEntry(f, q, k) == [x \in DOMAIN f \cup {q} |-> IF x = q THEN k ELSE f[x]]

\* the package main.py imports config from: the directory tamaos, in the
\* root of the modelled tree, and the interpreter's bytecode cache in it
PkgDir   == << <<116, 97, 109, 97, 111, 115>> >>          \* "tamaos"
CacheDir == Append(PkgDir, <<95, 95, 112, 121, 99, 97, 99, 104, 101, 95, 95>>)   \* "__pycache__"

\* the decimal digits of a natural number below 100
Decimal(n) == IF n < 10 THEN <<48 + n>> ELSE <<48 + (n \div 10), 48 + (n % 10)>>

\* the cache file of a module: <module>.cpython-3<minor>.pyc
PycPath(module) ==
    Append(CacheDir,
           module \o <<46, 99, 112, 121, 116, 104, 111, 110, 45, 51>> \o Decimal(sys.minor) \o <<46, 112, 121, 99>>)   \* ".cpython-3", ".pyc"
ConfigModule == <<99, 111, 110, 102, 105, 103>>     \* "config"
MainModule   == <<109, 97, 105, 110>>               \* "main"

\* what loading a module from its source does to the filesystem: unless
\* bytecode writing is off or the cache file is there, the loader makes
\* __pycache__ if it is missing and writes the cache file, and gives up
\* silently where it may not write
cache_bytecode(f, module) ==
    LET p  == PycPath(module)
        f1 == IF Kind(f, CacheDir) = "none" /\ Kind(f, PkgDir) = "dir"
              THEN AddEntry(f, CacheDir, "dir") ELSE f
    IN  IF sys.dont_write_bytecode \/ Kind(f, p) = "file" THEN f
        ELSE IF Kind(f1, CacheDir) = "dir" /\ Kind(f1, p) = "none" THEN AddEntry(f1, p, "file")
        ELSE f1

\* a printed line: the literal text of the format string and the values
\* substituted into its fields, in order
Line(text, args) == [text |-> text, args |-> args]

\* the characters sys.stdout can encode: the text of the format strings and
\* the printed numbers are ASCII, a str value is printed as it is
Encodable(c) ==
    \/ sys.stdout.errors \in {"replace", "backslashreplace"}
    \/ sys.stdout.errors = "surrogateescape" /\ c \in 56448..56575     \* U+DC80..U+DCFF
    \/ sys.stdout.encoding = "ascii" /\ c < 128
    \/ sys.stdout.encoding = "latin-1" /\ c < 256
    \/ sys.stdout.encoding = "utf-8" /\ c \notin 55296..57343          \* no surrogate
CanPrint(line) ==
    \A i \in 1..Len(line.args) :
        line.args[i].t = "str" =>
            \A j \in 1..Len(line.args[i].s) : Encodable(line.args[i].s[j])

\* print() called on each of the lines in turn: the lines that came out and
\* the exception that ended it, if one did (a line that cannot be encoded
\* raises UnicodeEncodeError and nothing of it is written)
RECURSIVE PrintAll(_)
PrintAll(lines) ==
    IF lines = <<>> THEN [out |-> <<>>, err |-> "none"]
    ELSE IF ~CanPrint(Head(lines)) THEN [out |-> <<>>, err |-> "UnicodeEncodeError"]
    ELSE LET r == PrintAll(Tail(lines))
         IN  [out |-> <<Head(lines)>> \o r.out, err |-> r.err]

\* the five lines of banner()
BannerLines(conf) ==
    << Line("=== TamaOS Boot ===", <<>>),
       Line("VFS={}  LOGS={}  SKIN={}", <<conf.VFS_PATH, conf.LOG_PATH, conf.SKIN_MODE>>),
       Line("CENTURY_REAL_SEC={}, BURST_CAP_PER_HOUR={}",
            <<conf.CENTURY_REAL_SEC, conf.BURST_CAP_PER_HOUR>>),
       Line("STASIS_FILL_RATE={}, STASIS_MAX_HOURS={}",
            <<conf.STASIS_FILL_RATE, conf.STASIS_MAX_HOURS>>),
       Line("OK.", <<>>) >>

\* faulty variant: "OK." is printed first
banner_OkFirst(conf) ==
    PrintAll(<<BannerLines(conf)[5]>> \o SubSeq(BannerLines(conf), 1, 4))

\* banner(): what it prints, and the exception it raises if a print fails
banner(conf) == PrintAll(BannerLines(conf))

\* the line main() prints after banner()
ReadyLine == Line("Stub OS ready. Replace with full kernel/devices.", <<>>)

NoExc == [type |-> "none", at |-> "none"]

\* lines 1-3, from the start of the process to the end of
\* "from tamaos.config import ...": the interpreter loads main.py (through
\* the import system when started with -m, which caches its bytecode), then
\* loads config.py, caching its bytecode before it runs the module's body
Import ==
    /\ pc = "import"
    /\ LET r  == config(environ, dotenv)
           f1 == IF sys.run_as_module THEN cache_bytecode(fs, MainModule) ELSE fs
       IN  /\ fs' = cache_bytecode(f1, ConfigModule)
           /\ environ' = r.environ
           /\ cfg' = r.cfg
           /\ IF r.exc = "none"
              THEN pc' = "ensure_dirs" /\ exc' = NoExc
              ELSE pc' = "crashed" /\ exc' = [type |-> r.exc, at |-> "import"]
    /\ UNCHANGED <<sys, penv, dotenv, fs0, fs1, cwd, out, run, hist>>
    /\ UNCHANGED devVars

\* line 17: ensure_dirs()
EnsureDirs ==
    /\ pc = "ensure_dirs"
    /\ LET r == ensure_dirs(fs, cwd, cfg)
       IN  /\ fs' = r.fs
           /\ IF r.err = "none"
              THEN pc' = "banner" /\ exc' = NoExc
              ELSE pc' = "crashed" /\ exc' = [type |-> r.err, at |-> "ensure_dirs"]
    /\ fs1' = fs
    /\ UNCHANGED <<sys, penv, environ, dotenv, cfg, fs0, cwd, out, run, hist>>
    /\ UNCHANGED devVars

\* line 18: banner()
Banner ==
    /\ pc = "banner"
    /\ LET r == banner(cfg)
       IN  /\ out' = out \o r.out
           /\ IF r.err = "none"
              THEN pc' = "ready" /\ exc' = NoExc
              ELSE pc' = "crashed" /\ exc' = [type |-> r.err, at |-> "banner"]
    /\ UNCHANGED <<sys, penv, environ, dotenv, cfg, fs, fs0, fs1, cwd, run, hist>>
    /\ UNCHANGED devVars

\* line 19: print("Stub OS ready. ..."), after which main returns and the
\* process exits
Ready ==
    /\ pc = "ready"
    /\ LET r == PrintAll(<<ReadyLine>>)
       IN  /\ out' = out \o r.out
           /\ IF r.err = "none"
              THEN pc' = "done" /\ exc' = NoExc
              ELSE pc' = "crashed" /\ exc' = [type |-> r.err, at |-> "ready"]
    /\ UNCHANGED <<sys, penv, environ, dotenv, cfg, fs, fs0, fs1, cwd, run, hist>>
    /\ UNCHANGED devVars

\* the process has exited (normally or by an uncaught exception) and is
\* started again the same way, with the environment it was first given and
\* the filesystem the earlier run left
Restart ==
    /\ pc \in {"done", "crashed"}
    /\ run < MaxRuns
    /\ pc' = "import"
    /\ exc' = NoExc
    /\ environ' = penv
    /\ cfg' = Unloaded
    /\ fs0' = fs
    /\ fs1' = fs
    /\ out' = <<>>
    /\ run' = run + 1
    /\ hist' = Append(hist, [fs0 |-> fs0, exc |-> exc])
    /\ UNCHANGED <<sys, penv, dotenv, fs, cwd>>
    /\ UNCHANGED devVars

(***************************************************************************)
(* The inputs: environments, .env files, filesystems.                      *)
(***************************************************************************)
NoVars == [k \in {} |-> <<>>]
OneVar(k, v) == [x \in {k} |-> v]

\* every string of at most MaxStrLen of the characters "0", "1", ".", "e"
\* and "-", and some others
NumChars == {48, 49, 46, 101, 45}
NumStrings ==
    UNION {[1..n -> NumChars] : n \in 0..MaxStrLen}
    \cup { <<32, 55>>,                         \* " 7"
           <<55, 10>>,                         \* "7\n"
           <<13, 55>>,                         \* "\r7"
           <<12, 55>>,                         \* "\f7"
           <<11, 55>>,                         \* "\v7"
           <<55, 13, 10>>,                     \* "7\r\n"
           <<160, 55, 8195>>,                  \* U+00A0 "7" U+2003
           <<28, 55>>,                         \* U+001C "7"
           <<49, 32, 50>>,                     \* "1 2"
           <<120>>,                            \* "x"
           <<55, 50>>,                         \* "72"
           <<43, 53>>,                         \* "+5"
           <<49, 95, 48>>,                     \* "1_0"
           <<49, 95, 95, 48>>,                 \* "1__0"
           <<95, 49>>,                         \* "_1"
           <<65321, 110, 102>>,                \* fullwidth "I", then "nf"
           <<105, 110, 102>>,                  \* "inf"
           <<45, 73, 110, 102>>,               \* "-Inf"
           <<110, 97, 110>>,                   \* "nan"
           <<49, 101, 57, 57, 57>>,            \* "1e999"
           <<45, 49, 101, 45, 57, 57, 57>>,    \* "-1e-999"
           <<51, 101, 45, 51, 50, 52>>,        \* "3e-324"
           <<50, 53, 57, 50, 48, 48, 48>>,     \* "2592000"
           <<48, 46, 49, 53>>,                 \* "0.15"
           <<49, 69, 51>>,                     \* "1E3"
           <<43, 46, 53, 101, 45, 51>> }       \* "+.5e-3"

\* numbers written with digits beyond ASCII
DigitStrings ==
    { <<1633, 95, 1634>>,                      \* Arabic-Indic "1_2"
      <<65297, 46, 65301>>,                    \* fullwidth "1.5"
      <<73553>>,                               \* Kawi "1" (Unicode 15)
      <<124146, 46, 92869>>,                   \* Nag Mundari "2", ".", Tangsa "5" (15, 14)
      <<72017, 73041>>,                        \* Dives Akuru "1", Masaram Gondi "1" (13, 10)
      <<123201, 101, 68913>> }                 \* Hmong "1", "e", Rohingya "1" (12, 11)

\* "", "x/y", "/x/y", "/y", ".//y/x/", "x/y/x"
PathStrings ==
    { <<>>, <<120, 47, 121>>, <<47, 120, 47, 121>>, <<47, 121>>,
      <<46, 47, 47, 121, 47, 120, 47>>, <<120, 47, 121, 47, 120>> }

\* "", "X"
SkinStrings == { <<>>, <<88>> }

\* skins with a character that not every stdout encodes: U+00E9, U+0100,
\* and the byte E9 of an environment that is not UTF-8, which os.environ
\* holds as the surrogate U+DCE9
OddSkins == { <<88, 233>>, <<256>>, <<56553>> }

\* environments that set at most one of the seven variables
SmallEnvs ==
    {NoVars}
    \cup {OneVar(k, v) : k \in FloatVars \cup IntVars, v \in NumStrings \cup DigitStrings}
    \cup {OneVar(k, v) : k \in {"VFS_PATH", "LOG_PATH"}, v \in PathStrings}
    \cup {OneVar("SKIN_MODE", v) : v \in SkinStrings}

\* environments that set a number in digits beyond ASCII
DigitEnvs == {OneVar(k, v) : k \in FloatVars \cup IntVars, v \in DigitStrings}

\* numbers with a byte that is not UTF-8: the byte E9; "1" and the byte E9
SurrogateStrings == { <<56553>>, <<49, 56553>> }
SurrogateEnvs == {OneVar(k, v) : k \in FloatVars \cup IntVars, v \in SurrogateStrings}

\* environments that set the skin to a string with such a character
SkinEnvs == {OneVar("SKIN_MODE", v) : v \in OddSkins}

\* environments that say where the two directories are
PathEnvs ==
    {NoVars}
    \cup {OneVar("VFS_PATH", v) : v \in PathStrings}
    \cup {OneVar("LOG_PATH", v) : v \in PathStrings}
    \cup {[k \in {"VFS_PATH", "LOG_PATH"} |-> IF k = "VFS_PATH" THEN v ELSE l] :
             v \in PathStrings, l \in PathStrings}

DotenvFiles ==
    { NoVars,
      OneVar("STASIS_MAX_HOURS", <<49, 48>>),           \* "10"
      OneVar("CENTURY_REAL_SEC", <<120>>),              \* "x"
      OneVar("BURST_CAP_PER_HOUR", <<49, 46, 53>>),     \* "1.5"
      OneVar("VFS_PATH", <<47, 121>>),                  \* "/y"
      OneVar("SKIN_MODE", <<88>>) }                     \* "X"

RootOnly(k) == [q \in {<<>>} |-> k]
FsNames == { <<120>>, <<121>> }     \* "x", "y"

\* the paths an entry can be added at: absent, in a directory that exists
NewPaths(f) ==
    {Append(q, nm) : q \in {d \in DOMAIN f : IsDirKind(f[d])}, nm \in FsNames} \ DOMAIN f

\* the filesystems with at most n entries besides the root
RECURSIVE FsWith(_)
FsWith(n) ==
    IF n = 0 THEN {RootOnly("dir"), RootOnly("rodir")}
    ELSE LET less == FsWith(n - 1)
         IN  less \cup
             UNION { {AddEntry(f, q, k) : q \in NewPaths(f), k \in {"dir", "rodir", "file"}} :
                     f \in less }

\* f with the package in it: the directory tamaos, of kind k, and the three
\* source files
WithPackage(f, k) ==
    LET srcs == {Append(PkgDir, nm) : nm \in {<<99, 111, 110, 102, 105, 103, 46, 112, 121>>,          \* "config.py"
                                              <<109, 97, 105, 110, 46, 112, 121>>,                   \* "main.py"
                                              <<99, 101, 110, 116, 117, 114, 121, 95, 108, 105, 102, 101, 46, 112, 121>>}}   \* "century_life.py"
    IN  [q \in DOMAIN f \cup {PkgDir} \cup srcs |->
            IF q = PkgDir THEN k ELSE IF q \in srcs THEN "file" ELSE f[q]]

\* the package as a checkout leaves it: writable, no bytecode cache yet
Fresh(filesystems) == {WithPackage(f, "dir") : f \in filesystems}

\* the states a bytecode cache can be found in: none, a directory (empty, or
\* with the cache file of config, or with a directory in that file's place),
\* a directory that may not be written to, or a file of that name
CacheStates(minor) ==
    LET pyc == Append(CacheDir, ConfigModule \o <<46, 99, 112, 121, 116, 104, 111, 110, 45, 51>> \o Decimal(minor) \o <<46, 112, 121, 99>>)
        none == [q \in {} |-> "none"]
    IN  { none,
          [q \in {CacheDir} |-> "dir"],
          [q \in {CacheDir} |-> "rodir"],
          [q \in {CacheDir} |-> "file"],
          [q \in {CacheDir, pyc} |-> IF q = pyc THEN "file" ELSE "dir"],
          [q \in {CacheDir, pyc} |-> "dir"] }

\* the packages over an empty root: writable or not, with any cache state
Packages(minor) ==
    { LET f == WithPackage(RootOnly("dir"), k)
      IN  [q \in DOMAIN f \cup DOMAIN c |-> IF q \in DOMAIN c THEN c[q] ELSE f[q]] :
      k \in {"dir", "rodir"}, c \in CacheStates(minor) }

\* the interpreters.  Python 3.6 to 3.13; started with -m or on the script;
\* bytecode writing on or off (-B, PYTHONDONTWRITEBYTECODE); stdout with one
\* of three encodings and four error handlers (the locale, PYTHONIOENCODING)
Minors == 6..13
Encodings == {"utf-8", "ascii", "latin-1"}
Handlers == {"strict", "surrogateescape", "replace", "backslashreplace"}
Interp(minor, dont, module, enc, errors) ==
    [minor |-> minor, dont_write_bytecode |-> dont, run_as_module |-> module,
     stdout |-> [encoding |-> enc, errors |-> errors]]

\* the newest interpreter, started with -m under a UTF-8 locale
Newest == {m \in Minors : m + 1 \notin Minors}
Usual == {Interp(m, FALSE, TRUE, "utf-8", "strict") : m \in Newest}

InitProcess(interps, envs, files, filesystems) ==
    /\ sys \in interps
    /\ pc = "import"
    /\ exc = NoExc
    /\ penv \in envs
    /\ environ = penv
    /\ dotenv \in files
    /\ cfg = Unloaded
    /\ fs \in filesystems
    /\ fs0 = fs
    /\ fs1 = fs
    /\ cwd \in {q \in DOMAIN fs : IsDirKind(fs[q]) /\ Len(q) <= 1 /\ q # PkgDir}
    /\ out = <<>>
    /\ run = 1
    /\ hist = <<>>

\* a number in digits beyond ASCII under every version of the interpreter
InitDigits ==
    InitProcess({Interp(m, FALSE, TRUE, "utf-8", "strict") : m \in Minors},
                DigitEnvs, DotenvFiles, Fresh({RootOnly("dir")}))

\* a number with a byte that is not UTF-8 under every version of the
\* interpreter
InitSurrogates ==
    InitProcess({Interp(m, FALSE, TRUE, "utf-8", "strict") : m \in Minors},
                SurrogateEnvs, DotenvFiles, Fresh({RootOnly("dir")}))

\* the package in every state, loaded every way, by a run whose numbers
\* can or cannot be read
InitCaches ==
    \E m \in Newest :
        InitProcess({Interp(m, d, r, "utf-8", "strict") : d \in BOOLEAN, r \in BOOLEAN},
                    {NoVars, OneVar("STASIS_MAX_HOURS", <<120>>)},       \* "x"
                    {NoVars}, Packages(m))

\* a skin that not every stdout encodes, under every stdout
InitSkins ==
    \E m \in Newest :
        InitProcess({Interp(m, FALSE, TRUE, e, h) : e \in Encodings, h \in Handlers},
                    SkinEnvs, {NoVars}, Fresh({RootOnly("dir")}))

\* the process: one of the four families above, or, under the usual
\* interpreter and a fresh package, any small environment and .env file over
\* an empty root, or any pair of directory settings over any small filesystem
Init ==
    /\ InitDevice
    /\ \/ InitDigits
       \/ InitSurrogates
       \/ InitCaches
       \/ InitSkins
       \/ InitProcess(Usual, SmallEnvs, DotenvFiles, Fresh({RootOnly("dir")}))
       \/ InitProcess(Usual, PathEnvs, {NoVars}, Fresh(FsWith(MaxEntries)))

Next == Import \/ EnsureDirs \/ Banner \/ Ready \/ Restart

Spec == Init /\ [][Next]_vars

\* the device: main.py never constructs one, so the process stays unstarted
InitD ==
    /\ InitDevice
    /\ InitProcess(Usual, {NoVars}, {NoVars}, Fresh({RootOnly("dir")}))

NextDevice == Tick

SpecDevice == InitD /\ [][NextDevice]_vars

(***************************************************************************)
(* Properties of the device (checked under SpecDevice).                    *)
(***************************************************************************)
\* every call so far was tick(dt) with one and the same dt >= 0 (-0.0 >= 0)
UniformDt == same # NoCall /\ same # Mixed /\ FLe(F0, same)

Zero == [hi |-> 0, lo |-> 0]
MagDiff(a, b) == IF MagLess(a, b) THEN MagSub(b, a) ELSE MagSub(a, b)

\* 2 * d <= m * ulp(a), where ulp(a) = 2^(MagBits(a) - 53) units of 2^-56
WithinHalfUlps(d, a, m) ==
    LET b == MagBits(a)
    IN  IF d = Zero THEN TRUE
        ELSE IF d.hi # 0 \/ d.lo >= 2^9 THEN FALSE
        ELSE IF b >= 53 THEN 2 * d.lo <= m * 2^(b - 53)
        ELSE 53 - b <= 20 /\ 2 * d.lo * 2^(53 - b) <= m

\* every product k * dt, k <= n, is a double: no addition has to round
AllExact(n, dt) == \A k \in 0..n : RoundMag(MagTimes(k, Mag(dt))) = MagTimes(k, Mag(dt))

\* C1 as claimed: after n successive tick(dt) calls with a dt >= 0, from age
\* 0, age == n*dt, and the n-th tick's snapshot reports that age.
C1_AgeEqualsProduct ==
    /\ ticks = 0 => \A d \in DtValues : FLe(F0, d) => FEq(dev.age, FMulInt(0, d))
    /\ (ticks > 0 /\ UniformDt) =>
          /\ FEq(dev.age, FMulInt(ticks, same))
          /\ ret.age = dev.age

\* C1 amended: after n successive tick(dt) calls with a finite dt >= 0, from
\* age 0, age is n*dt up to the rounding of the n-1 additions that can round:
\* it is within (n-1)/2 units in the last place of age of the exact product,
\* it is exactly n*dt when every k*dt (k <= n) is a double, and the n-th
\* tick's snapshot reports that age.
C1_AgeNearProduct ==
    /\ ticks = 0 => \A d \in DtValues : FLe(F0, d) => FEq(dev.age, FMulInt(0, d))
    /\ (ticks > 0 /\ UniformDt) =>
          /\ FLe(F0, dev.age)
          /\ WithinHalfUlps(MagDiff(Mag(dev.age), MagTimes(ticks, Mag(same))),
                            Mag(dev.age), ticks - 1)
          /\ AllExact(ticks, same) => FEq(dev.age, FMulInt(ticks, same))
          /\ ret.age = dev.age

\* six tick(0.1) calls: age is 0.6, one unit in the last place below 6*0.1
C1_Witness ==
    /\ ticks = 6 /\ same = F0_1
    /\ ~FEq(dev.age, FMulInt(6, F0_1))
    /\ ret.age = dev.age

\* C2: the device's stage is "Neonate" in every reachable state, and so is
\* the stage of every snapshot tick returns.
C2_StageNeonate ==
    /\ dev.stage = "Neonate"
    /\ ret # NoCall => ret.stage = "Neonate"

\* four calls have made the device older than 1.0
C2_Witness ==
    /\ ticks = 4 /\ FLe(F1, dev.age) /\ ~FEq(dev.age, F1)
    /\ dev.stage = "Neonate" /\ ret.stage = "Neonate"

\* the dt of the last call as the claims read it: tick() is tick(1.0)
LastDt == IF call.args = NoArg THEN F1 ELSE call.args[1]

\* C3 as claimed: age starts at 0 and no tick call, whatever its dt, makes
\* the age smaller.
C3_NeverDecreases ==
    /\ ticks = 0 => FEq(dev.age, F0)
    /\ call # NoCall => FLe(prev.age, dev.age)

\* C3 amended: age starts at 0, and a tick(dt) call with dt >= 0 (tick()
\* included) on a device of finite age leaves the age not smaller than it was.
C3_NeverDecreasesNonNeg ==
    /\ ticks = 0 => FEq(dev.age, F0)
    /\ (call # NoCall /\ FLe(F0, LastDt)) => FLe(prev.age, dev.age)

\* a tick(0.1) on a device that has been ticked before made it older
C3_Witness ==
    /\ ticks >= 2 /\ call = [args |-> <<F0_1>>]
    /\ FLe(prev.age, dev.age) /\ ~FEq(prev.age, dev.age)

\* C7: from every device state tick() and tick(1.0) leave the same age and
\* stage and return the same snapshot; every tick() that was made did what
\* tick(1.0) does.
C7_DefaultIsOne ==
    /\ tick(dev, NoArg) = tick(dev, <<F1>>)
    /\ (call # NoCall /\ call.args = NoArg) =>
          /\ dev = tick(prev, <<F1>>).self
          /\ ret = tick(prev, <<F1>>).ret

\* a tick() on a device that was not new added 1.0
C7_Witness ==
    /\ call = [args |-> NoArg] /\ ~FEq(prev.age, F0)
    /\ dev.age = FAdd(prev.age, F1) /\ ret.age = dev.age

(***************************************************************************)
(* Properties of the process (checked under Spec).                         *)
(***************************************************************************)
Loaded == cfg # Unloaded
VfsDir == Resolve(cwd, Path(cfg.VFS_PATH.s))
LogDir == Resolve(cwd, Path(cfg.LOG_PATH.s))
Ancestors(q) == {Prefix(q, n) : n \in 0..Len(q)}
NumVars == FloatVars \cup IntVars

\* the entries of the bytecode cache, and whether q is one, of its kind
PycPaths == {PycPath(MainModule), PycPath(ConfigModule)}
IsCacheEntry(q) == (q = CacheDir /\ fs[q] = "dir") \/ (q \in PycPaths /\ fs[q] = "file")

\* the current run has called ensure_dirs, which returned or raised
AfterEnsureDirs ==
    \/ pc \in {"banner", "ready", "done"}
    \/ pc = "crashed" /\ exc.at \in {"ensure_dirs", "banner", "ready"}

Finite(neg, coef, exp) ==
    [t |-> "float", cls |-> "finite", neg |-> neg, coef |-> coef, exp |-> exp]

\* the defaults: 2592000.0, 1.0, 0.15, 72, "./vfs", "./logs", "BSS"
DefaultConfig ==
    [CENTURY_REAL_SEC   |-> Finite(FALSE, 2592, 3),
     BURST_CAP_PER_HOUR |-> Finite(FALSE, 1, 0),
     STASIS_FILL_RATE   |-> Finite(FALSE, 15, -2),
     STASIS_MAX_HOURS   |-> [t |-> "int", v |-> 72],
     VFS_PATH           |-> [t |-> "str", s |-> <<46, 47, 118, 102, 115>>],       \* "./vfs"
     LOG_PATH           |-> [t |-> "str", s |-> <<46, 47, 108, 111, 103, 115>>],  \* "./logs"
     SKIN_MODE          |-> [t |-> "str", s |-> <<66, 83, 83>>]]                  \* "BSS"

\* C5 as claimed: with none of the seven variables set in the environment
\* the process is started with, the loaded configuration is the defaults;
\* every variable that is set is loaded as its value coerced.
C5_DefaultsWhenUnset ==
    Loaded =>
       /\ DOMAIN penv \cap ConfigVars = {} => cfg = DefaultConfig
       /\ \A k \in DOMAIN penv \cap ConfigVars : cfg[k] = Coerce(k, PyStr(penv[k]))

\* C5 amended: with none of the seven variables set in the environment the
\* process is started with, nor in the .env file load_dotenv reads, the
\* loaded configuration is the defaults; every variable set in the process
\* environment is loaded as that value coerced (the .env file's value is
\* used only for a variable the environment leaves unset).
C5_DefaultsWhenUnsetAnywhere ==
    Loaded =>
       /\ (DOMAIN penv \cap ConfigVars = {} /\ DOMAIN dotenv \cap ConfigVars = {})
             => cfg = DefaultConfig
       /\ \A k \in DOMAIN penv \cap ConfigVars : cfg[k] = Coerce(k, PyStr(penv[k]))
       /\ \A k \in (DOMAIN dotenv \cap ConfigVars) \ DOMAIN penv :
             cfg[k] = Coerce(k, PyStr(dotenv[k]))

\* a run with nothing set anywhere has loaded the defaults
C5_Witness ==
    /\ pc = "done" /\ penv = NoVars /\ dotenv = NoVars
    /\ cfg = DefaultConfig

\* C8 as claimed: a numeric variable that is present in the environment with
\* a value its type cannot be coerced from ends the run with an uncaught
\* ValueError (under Python 3.6 it can be the subclass UnicodeEncodeError)
\* during the import of config: no directory has been created, nothing was
\* printed.
C8_BadNumberIsFatal ==
    /\ (pc # "import" /\
        \E k \in NumVars \cap DOMAIN environ : Raises(Coerce(k, PyStr(environ[k]))))
          => /\ pc = "crashed"
             /\ exc.at = "import"
    /\ (pc = "crashed" /\ exc.at = "import") =>
          /\ exc.type \in {"ValueError", "UnicodeEncodeError"}
          /\ exc.type = "UnicodeEncodeError" => sys.minor = 6
          /\ ~Loaded
          /\ fs = fs0
          /\ out = <<>>
          /\ ~ENABLED (EnsureDirs \/ Banner \/ Ready)

\* C8 amended: such a value ends the run with an uncaught ValueError (under
\* Python 3.6 it can be the subclass UnicodeEncodeError) during the import
\* of config: nothing was printed and ensure_dirs was not called;
\* everything that existed is as it was, and all the run has added is the
\* interpreter's bytecode cache (__pycache__ in the package, the cache files
\* of main and config in it), nothing at all when bytecode writing is off.
C8_BadNumberIsFatalCacheOnly ==
    /\ (pc # "import" /\
        \E k \in NumVars \cap DOMAIN environ : Raises(Coerce(k, PyStr(environ[k]))))
          => /\ pc = "crashed"
             /\ exc.at = "import"
    /\ (pc = "crashed" /\ exc.at = "import") =>
          /\ exc.type \in {"ValueError", "UnicodeEncodeError"}
          /\ exc.type = "UnicodeEncodeError" => sys.minor = 6
          /\ ~Loaded
          /\ \A q \in DOMAIN fs0 : q \in DOMAIN fs /\ fs[q] = fs0[q]
          /\ \A q \in DOMAIN fs \ DOMAIN fs0 : IsCacheEntry(q)
          /\ sys.dont_write_bytecode => fs = fs0
          /\ out = <<>>
          /\ ~ENABLED (EnsureDirs \/ Banner \/ Ready)

\* STASIS_MAX_HOURS=1.0 is no int: the run died in the import, which had
\* written the bytecode cache
C8_Witness ==
    /\ "STASIS_MAX_HOURS" \in DOMAIN penv
    /\ penv["STASIS_MAX_HOURS"] = <<49, 46, 48>>        \* "1.0"
    /\ pc = "crashed" /\ exc = [type |-> "ValueError", at |-> "import"]
    /\ DOMAIN fs \ DOMAIN fs0 = {CacheDir} \cup PycPaths
    /\ out = <<>>

\* C4: a run that follows a successful run raises nothing and leaves the
\* filesystem as it found it, both directories existing; ensure_dirs called
\* again wherever it has succeeded is a no-op.
C4_SecondRunNoOp ==
    /\ (run >= 2 /\ hist[run - 1].exc = NoExc /\ pc \notin {"import", "ensure_dirs"}) =>
          /\ exc = NoExc
          /\ fs = fs0
          /\ is_dir(fs, VfsDir) /\ is_dir(fs, LogDir)
    /\ pc \in {"banner", "ready", "done"} =>
          ensure_dirs(fs, cwd, cfg) = [fs |-> fs, err |-> "none"]

\* the first run created directories, the second found them and finished
C4_Witness ==
    /\ run = 2 /\ pc = "done"
    /\ hist[1].exc = NoExc /\ hist[1].fs0 # fs0
    /\ fs = fs0

\* C6: once ensure_dirs has returned, VFS_PATH and LOG_PATH and all their
\* ancestors exist as directories.
C6_AncestorsCreated ==
    pc \in {"banner", "ready", "done"} =>
       \A q \in Ancestors(VfsDir) \cup Ancestors(LogDir) : is_dir(fs, q)

\* VFS_PATH=/x/y with /x missing: /x and /x/y were both created
C6_Witness ==
    /\ pc = "done" /\ run = 1
    /\ cfg.VFS_PATH.s = <<47, 120, 47, 121>>            \* "/x/y"
    /\ << <<120>> >> \notin DOMAIN fs0
    /\ is_dir(fs, << <<120>> >>) /\ is_dir(fs, << <<120>>, <<121>> >>)

\* C9 as claimed: whatever existed before a run exists unchanged, and
\* whatever is new is a directory that is VFS_PATH, LOG_PATH or an ancestor
\* of one of them, whether ensure_dirs succeeded or failed.
C9_OnlyAddsDirectories ==
    /\ \A q \in DOMAIN fs0 : q \in DOMAIN fs /\ fs[q] = fs0[q]
    /\ ~Loaded => fs = fs0
    /\ Loaded => \A q \in DOMAIN fs \ DOMAIN fs0 :
                    /\ fs[q] = "dir"
                    /\ q \in Ancestors(VfsDir) \cup Ancestors(LogDir)

\* C9 amended: ensure_dirs, successful or failed, leaves whatever existed
\* when it was called unchanged and adds only directories that are VFS_PATH,
\* LOG_PATH or an ancestor of one of them.  Over the whole run whatever
\* existed at its start exists unchanged, and whatever is new is such a
\* directory or belongs to the interpreter's bytecode cache, whose cache
\* files are the only regular files a run creates; with bytecode writing off
\* a run adds nothing but those directories.
C9_OnlyAddsDirectoriesAndCache ==
    /\ AfterEnsureDirs =>
          /\ \A q \in DOMAIN fs1 : q \in DOMAIN fs /\ fs[q] = fs1[q]
          /\ \A q \in DOMAIN fs \ DOMAIN fs1 :
                 fs[q] = "dir" /\ q \in Ancestors(VfsDir) \cup Ancestors(LogDir)
    /\ \A q \in DOMAIN fs0 : q \in DOMAIN fs /\ fs[q] = fs0[q]
    /\ \A q \in DOMAIN fs \ DOMAIN fs0 :
          \/ IsCacheEntry(q)
          \/ Loaded /\ fs[q] = "dir" /\ q \in Ancestors(VfsDir) \cup Ancestors(LogDir)
    /\ sys.dont_write_bytecode =>
          /\ ~Loaded => fs = fs0
          /\ Loaded => \A q \in DOMAIN fs \ DOMAIN fs0 :
                          fs[q] = "dir" /\ q \in Ancestors(VfsDir) \cup Ancestors(LogDir)

\* ensure_dirs failed on LOG_PATH after it had created VFS_PATH, in a run
\* whose import had written the bytecode cache
C9_Witness ==
    /\ pc = "crashed" /\ exc.at = "ensure_dirs"
    /\ fs # fs1 /\ fs1 # fs0
    /\ is_dir(fs, VfsDir) /\ ~is_dir(fs, LogDir)

\* the lines of a complete run
FullOutput == BannerLines(cfg) \o <<ReadyLine>>

\* C10: nothing is printed before both directories exist, a run that dies
\* in the import or in ensure_dirs has printed nothing, what has been printed
\* is always the beginning of the six lines in their order (a run that dies
\* in banner has printed less than the banner), and a run that finishes has
\* printed all six and does nothing more.
C10_OutputAfterDirs ==
    /\ out # <<>> => (Loaded /\ is_dir(fs, VfsDir) /\ is_dir(fs, LogDir))
    /\ (pc = "crashed" /\ exc.at \in {"import", "ensure_dirs"}) => out = <<>>
    /\ pc \in {"import", "ensure_dirs", "banner"} => out = <<>>
    /\ (pc = "crashed" /\ exc.at = "banner") => Len(out) < 5
    /\ out # <<>> => (Len(out) <= 6 /\ out = SubSeq(FullOutput, 1, Len(out)))
    /\ pc = "done" =>
          /\ exc = NoExc
          /\ [i \in 1..6 |-> out[i].text] =
                << "=== TamaOS Boot ===",
                   "VFS={}  LOGS={}  SKIN={}",
                   "CENTURY_REAL_SEC={}, BURST_CAP_PER_HOUR={}",
                   "STASIS_FILL_RATE={}, STASIS_MAX_HOURS={}",
                   "OK.",
                   "Stub OS ready. Replace with full kernel/devices." >>
          /\ out[2].args = <<cfg.VFS_PATH, cfg.LOG_PATH, cfg.SKIN_MODE>>
          /\ out[3].args = <<cfg.CENTURY_REAL_SEC, cfg.BURST_CAP_PER_HOUR>>
          /\ out[4].args = <<cfg.STASIS_FILL_RATE, cfg.STASIS_MAX_HOURS>>
          /\ ~ENABLED (Import \/ EnsureDirs \/ Banner \/ Ready)

\* a run that had to create its directories printed all six lines
C10_Witness ==
    /\ pc = "done" /\ Len(out) = 6
    /\ fs # fs1

=============================================================================
